---- MODULE Spec2Model ----
(***************************************************************************)
(* A model of east/database.py: the EastModel extension of the Peewee      *)
(* Model class.  Python strings are sequences of one-character strings,    *)
(* Python values are tagged records, an insertion-ordered dict is the      *)
(* sequence of its items, and the outcome of a call is either              *)
(* [kind |-> "return", value |-> v] or [kind |-> "raise", exc |-> e].      *)
(***************************************************************************)
EXTENDS Integers, Sequences, FiniteSets, TLC

VARIABLES call, result

vars == <<call, result>>

\* Longest run of padding characters put before and after a driver message.
MaxPad == 2

(***************************************************************************)
(* Strings                                                                 *)
(***************************************************************************)

\* The token searched for in the driver message.
UNIQUE == <<"U","N","I","Q","U","E">>

\* The grave accent character (written by name: the lexer refuses it).
BACKTICK == "grave"

\* The literal parts of the three message templates.
T_create == <<"C","a","n","n","o","t"," ","c","r","e","a","t","e"," ",BACKTICK>>
T_inuse == <<BACKTICK,","," ","v","a","l","u","e"," ","a","l","r","e","a","d","y"," ","i","n"," ","u","s","e"," ","[">>
T_integrity == <<"D","a","t","a","b","a","s","e"," ","i","n","t","e","g","r","i","t","y"," ","v","i","o","l","a","t","e","d"," ","[">>
T_operational == <<"D","a","t","a","b","a","s","e"," ","o","p","e","r","a","t","i","o","n","a","l"," ","e","r","r","o","r"," ","[">>
T_close == <<"]",".">>

\* Python's (sub in s) on strings: sub occurs in s at some offset.
Contains(sub, s) ==
    \E i \in 0..(Len(s) - Len(sub)) : SubSeq(s, i + 1, i + Len(sub)) = sub

\* 'Cannot create <grave>%s<grave>, value already in use [%s].' % (name, e)
FormatNotUnique(name, msg) == T_create \o name \o T_inuse \o msg \o T_close

\* 'Database integrity violated [%s].' % e
FormatIntegrity(msg) == T_integrity \o msg \o T_close

\* 'Database operational error [%s].' % e
FormatOperational(msg) == T_operational \o msg \o T_close

(***************************************************************************)
(* Exceptions                                                              *)
(***************************************************************************)

\* The exception classes a wrapped operation raises: Peewee's database
\* errors and Python built-ins.
NativeClasses ==
    {"IntegrityError", "OperationalError", "DataError", "ProgrammingError",
     "peewee.DatabaseError", "DoesNotExist", "TypeError", "KeyboardInterrupt"}

\* The classes of east.exceptions raised by the translation.
ApiClasses == {"ValueNotUniqueError", "IntegrityViolationError", "DatabaseError"}

\* The class itself and its base classes (what isinstance answers to).
Mro(c) ==
    CASE c \in {"IntegrityError", "OperationalError", "DataError", "ProgrammingError"} ->
            {c, "peewee.DatabaseError", "PeeweeException", "Exception", "BaseException"}
      [] c = "peewee.DatabaseError" ->
            {c, "PeeweeException", "Exception", "BaseException"}
      [] c = "DoesNotExist" -> {c, "Exception", "BaseException"}
      [] c = "TypeError" -> {c, "Exception", "BaseException"}
      [] c = "KeyboardInterrupt" -> {c, "BaseException"}
      [] OTHER -> {c, "Exception", "BaseException"}

\* An (except klass as e) clause takes e.
Catches(klass, e) == klass \in Mro(e.cls)

\* str(e) of an exception built from one message.
str(e) == e.msg

Raise(klass, msg) == [kind |-> "raise", exc |-> [cls |-> klass, msg |-> msg]]

Return(v) == [kind |-> "return", value |-> v]

\* Python's None.
None == [t |-> "none"]

(***************************************************************************)
(* Model classes                                                           *)
(***************************************************************************)

ModelClasses == {"User", "Post", "Comment", "Plain"}

\* cls.__name__ as a string.
ClassName(cls) ==
    CASE cls = "User" -> <<"U","s","e","r">>
      [] cls = "Post" -> <<"P","o","s","t">>
      [] cls = "Comment" -> <<"C","o","m","m","e","n","t">>
      [] cls = "Plain" -> <<"P","l","a","i","n">>

(***************************************************************************)
(* Exception translation                                                   *)
(***************************************************************************)

\* A create that tests the message with startswith instead of (in).
create_startswith(cls, outcome) ==
    IF outcome.kind = "return" THEN Return(None)
    ELSE LET e == outcome.exc IN
         IF Catches("IntegrityError", e)
         THEN IF Len(str(e)) >= Len(UNIQUE) /\ SubSeq(str(e), 1, Len(UNIQUE)) = UNIQUE
              THEN Raise("ValueNotUniqueError", FormatNotUnique(ClassName(cls), str(e)))
              ELSE Raise("IntegrityViolationError", FormatIntegrity(str(e)))
         ELSE IF Catches("OperationalError", e)
         THEN Raise("DatabaseError", FormatOperational(str(e)))
         ELSE outcome

\* A create whose test of the message succeeds on every message.
create_always_unique(cls, outcome) ==
    IF outcome.kind = "return" THEN Return(None)
    ELSE LET e == outcome.exc IN
         IF Catches("IntegrityError", e)
         THEN Raise("ValueNotUniqueError", FormatNotUnique(ClassName(cls), str(e)))
         ELSE IF Catches("OperationalError", e)
         THEN Raise("DatabaseError", FormatOperational(str(e)))
         ELSE outcome

\* A create with no handler for OperationalError.
create_no_operational(cls, outcome) ==
    IF outcome.kind = "return" THEN Return(None)
    ELSE LET e == outcome.exc IN
         IF Catches("IntegrityError", e)
         THEN IF Contains(UNIQUE, str(e))
              THEN Raise("ValueNotUniqueError", FormatNotUnique(ClassName(cls), str(e)))
              ELSE Raise("IntegrityViolationError", FormatIntegrity(str(e)))
         ELSE outcome

\* A create that returns what the delegated create returned.
create_returns_instance(cls, outcome) ==
    IF outcome.kind = "return" THEN outcome
    ELSE LET e == outcome.exc IN
         IF Catches("IntegrityError", e)
         THEN IF Contains(UNIQUE, str(e))
              THEN Raise("ValueNotUniqueError", FormatNotUnique(ClassName(cls), str(e)))
              ELSE Raise("IntegrityViolationError", FormatIntegrity(str(e)))
         ELSE IF Catches("OperationalError", e)
         THEN Raise("DatabaseError", FormatOperational(str(e)))
         ELSE outcome

\* EastModel.create, given the outcome of super().create(**attributes).
create(cls, outcome) ==
    IF outcome.kind = "return" THEN Return(None)
    ELSE LET e == outcome.exc IN
         IF Catches("IntegrityError", e)
         THEN IF Contains(UNIQUE, str(e))
              THEN Raise("ValueNotUniqueError", FormatNotUnique(ClassName(cls), str(e)))
              ELSE Raise("IntegrityViolationError", FormatIntegrity(str(e)))
         ELSE IF Catches("OperationalError", e)
         THEN Raise("DatabaseError", FormatOperational(str(e)))
         ELSE outcome

\* A replace_exceptions whose last handler takes every Exception.
replace_exceptions_catch_all(cls, outcome) ==
    IF outcome.kind = "return" THEN Return(None)
    ELSE LET e == outcome.exc IN
         IF Catches("IntegrityError", e)
         THEN IF Contains(UNIQUE, str(e))
              THEN Raise("ValueNotUniqueError", FormatNotUnique(ClassName(cls), str(e)))
              ELSE Raise("IntegrityViolationError", FormatIntegrity(str(e)))
         ELSE IF Catches("Exception", e)
         THEN Raise("DatabaseError", FormatOperational(str(e)))
         ELSE outcome

\* EastModel.replace_exceptions, given the outcome of call(*args, **kwargs).
replace_exceptions(cls, outcome) ==
    IF outcome.kind = "return" THEN Return(None)
    ELSE LET e == outcome.exc IN
         IF Catches("IntegrityError", e)
         THEN IF Contains(UNIQUE, str(e))
              THEN Raise("ValueNotUniqueError", FormatNotUnique(ClassName(cls), str(e)))
              ELSE Raise("IntegrityViolationError", FormatIntegrity(str(e)))
         ELSE IF Catches("OperationalError", e)
         THEN Raise("DatabaseError", FormatOperational(str(e)))
         ELSE outcome

(***************************************************************************)
(* Class definitions                                                       *)
(***************************************************************************)

\* What getattr(cls, k) yields: a field (by its class), a plain function
\* (by its return annotation), or some other object.
Field(ftype) == [kind |-> "field", ftype |-> ftype]
Function(ann) == [kind |-> "function", ann |-> ann]
OtherAttr == [kind |-> "other"]

\* Return annotations: absent, T, [T], (T, view) and ([T], view).
NoAnn == [shape |-> "none"]
Bare(type) == [shape |-> "type", type |-> type]
ListOf(type) == [shape |-> "list", type |-> type]
Pair(first, view) == [shape |-> "tuple", first |-> first, view |-> view]

Item(k, v) == [k |-> k, v |-> v]

\* cls.__dict__ of the application's model classes, in definition order.
ClassDict(cls) ==
    CASE cls = "User" ->
            << Item("id", Field("PrimaryKeyField")),
               Item("name", Field("CharField")),
               Item("joined", Field("DateTimeField")),
               Item("token", Field("UUIDField")),
               Item("email_hash", OtherAttr),
               Item("age", Function(Bare("int"))),
               Item("tags", Function(ListOf("str"))),
               Item("scores", Function(Pair(ListOf("float"), "brief"))),
               Item("latest", Function(Pair(Bare("Post"), "brief"))),
               Item("posts", Function(Pair(ListOf("Post"), "brief"))),
               Item("drafts", Function(ListOf("Post"))),
               Item("pinned", Function(Bare("Post"))),
               Item("wrong", Function(Pair(Bare("Post"), "summary"))),
               Item("raw", Function(NoAnn)) >>
      [] cls = "Post" ->
            << Item("id", Field("PrimaryKeyField")),
               Item("title", Field("TextField")),
               Item("author", Field("ForeignKeyField")),
               Item("created", Field("DateTimeField")),
               Item("comments", Function(ListOf("Comment"))),
               Item("top", Function(Pair(Bare("Comment"), "brief"))),
               Item("meta", Function(Bare("dict"))) >>
      [] cls = "Comment" ->
            << Item("id", Field("PrimaryKeyField")),
               Item("body", Field("TextField")),
               Item("flagged", Field("BooleanField")) >>
      [] cls = "Plain" ->
            << Item("id", Field("PrimaryKeyField")),
               Item("value", Field("FloatField")),
               Item("owner", Function(Pair(Bare("User"), "summary"))) >>

\* Whether the class declares __serialization__.
HasSerialization(cls) == cls \in {"User", "Post", "Comment"}

\* cls.__serialization__: view name -> ordered attribute names.
Serialization(cls) ==
    CASE cls = "User" ->
            [full |-> <<"id", "name", "joined", "posts", "age", "tags">>,
             summary |-> <<"name", "age">>,
             brief |-> <<"id", "name", "drafts">>,
             broken |-> <<"name", "nosuch", "age">>,
             badnest |-> <<"name", "wrong">>]
      [] cls = "Post" ->
            [brief |-> <<"id", "title">>,
             full |-> <<"id", "title", "author", "created", "comments">>,
             deep |-> <<"title", "top", "meta">>]
      [] cls = "Comment" ->
            [brief |-> <<"id", "body">>,
             full |-> <<"flagged", "body", "id">>]

\* The view names passed by callers; "" is the default of to_jsondict.
ViewArgs == {"", "full", "summary", "brief", "broken", "badnest", "deep", "nosuch"}

\* The view=None default of to_attr_jsontype.
NoneView == "<None>"

\* Truth value of a view argument: None and '' are false.
Truthy(view) == view \notin {"", NoneView}

(***************************************************************************)
(* Dicts as item sequences                                                 *)
(***************************************************************************)

Keys(items) == [i \in 1..Len(items) |-> items[i].k]

HasKey(items, k) == \E i \in 1..Len(items) : items[i].k = k

Lookup(items, k) == items[CHOOSE i \in 1..Len(items) : items[i].k = k].v

\* d[k] = v on an insertion-ordered dict: a present key keeps its place.
DictSet(items, k, v) ==
    IF HasKey(items, k)
    THEN [i \in 1..Len(items) |-> IF items[i].k = k THEN Item(k, v) ELSE items[i]]
    ELSE Append(items, Item(k, v))

(***************************************************************************)
(* Values                                                                  *)
(***************************************************************************)

JStr(s) == [t |-> "str", v |-> s]
JInt(n) == [t |-> "int", v |-> n]
JDict(items) == [t |-> "dict", items |-> items]
JList(items) == [t |-> "list", items |-> items]
\* A datetime, by its ISO 8601 text.
DateTime(iso) == [t |-> "datetime", iso |-> iso]
\* The bound method getattr(instance, name) yields.
BoundMethod(cls, name) == [t |-> "method", cls |-> cls, name |-> name]

\* A model instance: its class and its _data dict.
Instance(cls, data) == [t |-> "instance", cls |-> cls, data |-> data]

(***************************************************************************)
(* Schema description                                                      *)
(***************************************************************************)

\* EastModel._TYPE_MAP: field class -> JSON type name.
TYPE_MAP ==
    [IntegerField |-> "integer", BigIntegerField |-> "Bigint",
     PrimaryKeyField |-> "integer", ForeignKeyField |-> "integer",
     FloatField |-> "float", DoubleField |-> "double",
     DecimalField |-> "double", CharField |-> "string",
     TextField |-> "string", DateTimeField |-> "Datetime",
     DateField |-> "Date", TimeField |-> "Time",
     TimestampField |-> "Timestamp", BooleanField |-> "bool"]

\* helpers.to_jsontype: the JSON type of a Python type that is no model;
\* "object" for a type it cannot resolve.
to_jsontype(type) ==
    CASE type = "int" -> JStr("integer")
      [] type = "float" -> JStr("float")
      [] type = "str" -> JStr("string")
      [] type = "bool" -> JStr("bool")
      [] OTHER -> JStr("object")

\* issubclass(type, EastModel)
IsModel(type) == type \in ModelClasses

\* getattr(cls, k) on a model class.
getattr_class(cls, k) ==
    IF HasKey(ClassDict(cls), k)
    THEN Return(Lookup(ClassDict(cls), k))
    ELSE Raise("AttributeError", <<k>>)

\* [k for k, v in cls.__dict__.items() if isinstance(v, FieldDescriptor)]
FieldNames(cls) ==
    LET d == ClassDict(cls) IN
    SelectSeq(Keys(d), LAMBDA k : Lookup(d, k).kind = "field")

\* cls.__serialization__[view]
SerializationView(cls, view) ==
    IF ~HasSerialization(cls) THEN Raise("AttributeError", <<"__serialization__">>)
    ELSE IF view \notin DOMAIN Serialization(cls) THEN Raise("KeyError", <<view>>)
    ELSE Return(Serialization(cls)[view])

RECURSIVE document_response(_, _)
RECURSIVE to_attr_jsontype(_, _, _)
RECURSIVE DescribeAttrs(_, _, _, _)

\* A to_attr_jsontype that keeps the caller's view for a (type, view) pair.
to_attr_jsontype_keeps_view(cls, attr, view) ==
    IF attr.kind = "field" /\ attr.ftype \in DOMAIN TYPE_MAP
    THEN Return(JStr(TYPE_MAP[attr.ftype]))
    ELSE IF attr.kind = "function"
    THEN IF attr.ann.shape # "none"
         THEN LET paired == attr.ann.shape = "tuple"
                  return_type == IF paired THEN attr.ann.first ELSE attr.ann
                  is_list == return_type.shape = "list"
                  basic_type == return_type.type
                  format == IF IsModel(basic_type)
                            THEN document_response(basic_type, view)
                            ELSE Return(to_jsontype(basic_type))
              IN IF format.kind = "raise" THEN format
                 ELSE IF is_list THEN Return(JList(<<format.value>>)) ELSE format
         ELSE Return(JStr("object"))
    ELSE Return(JStr("object"))

\* A to_attr_jsontype that tests the pair, not its first element, for a list.
to_attr_jsontype_list_of_pair(cls, attr, view) ==
    IF attr.kind = "field" /\ attr.ftype \in DOMAIN TYPE_MAP
    THEN Return(JStr(TYPE_MAP[attr.ftype]))
    ELSE IF attr.kind = "function"
    THEN IF attr.ann.shape # "none"
         THEN LET paired == attr.ann.shape = "tuple"
                  return_type == IF paired THEN attr.ann.first ELSE attr.ann
                  view_used == IF paired THEN attr.ann.view ELSE view
                  is_list == attr.ann.shape = "list"
                  basic_type == return_type.type
                  format == IF IsModel(basic_type)
                            THEN document_response(basic_type, view_used)
                            ELSE Return(to_jsontype(basic_type))
              IN IF format.kind = "raise" THEN format
                 ELSE IF is_list THEN Return(JList(<<format.value>>)) ELSE format
         ELSE Return(JStr("object"))
    ELSE Return(JStr("object"))

\* EastModel.to_attr_jsontype(attr, view)
to_attr_jsontype(cls, attr, view) ==
    IF attr.kind = "field" /\ attr.ftype \in DOMAIN TYPE_MAP
    THEN Return(JStr(TYPE_MAP[attr.ftype]))
    ELSE IF attr.kind = "function"
    THEN IF attr.ann.shape # "none"
         THEN LET paired == attr.ann.shape = "tuple"
                  return_type == IF paired THEN attr.ann.first ELSE attr.ann
                  view_used == IF paired THEN attr.ann.view ELSE view
                  is_list == return_type.shape = "list"
                  basic_type == return_type.type
                  format == IF IsModel(basic_type)
                            THEN document_response(basic_type, view_used)
                            ELSE Return(to_jsontype(basic_type))
              IN IF format.kind = "raise" THEN format
                 ELSE IF is_list THEN Return(JList(<<format.value>>)) ELSE format
         ELSE Return(JStr("object"))
    ELSE Return(JStr("object"))

\* The dict comprehension of document_response over attrs[1..n]: the items
\* built so far, or the first error raised.
DescribeAttrs(cls, attrs, view, n) ==
    IF n = 0 THEN Return(<<>>)
    ELSE LET before == DescribeAttrs(cls, attrs, view, n - 1) IN
         IF before.kind = "raise" THEN before
         ELSE LET attr == getattr_class(cls, attrs[n]) IN
              IF attr.kind = "raise" THEN attr
              ELSE LET type == to_attr_jsontype(cls, attr.value, view) IN
                   IF type.kind = "raise" THEN type
                   ELSE Return(DictSet(before.value, attrs[n], type.value))

\* A document_response that reads the view with .get(view, []) and skips
\* the names the class does not define.
document_response_lenient(cls, view) ==
    LET declared == SerializationView(cls, view)
        attrs == IF Truthy(view)
                 THEN IF declared.kind = "raise" THEN <<>>
                      ELSE SelectSeq(declared.value,
                                     LAMBDA k : HasKey(ClassDict(cls), k))
                 ELSE FieldNames(cls)
        items == DescribeAttrs(cls, attrs, view, Len(attrs))
    IN IF items.kind = "raise" THEN items ELSE Return(JDict(items.value))

\* EastModel.document_response(view)
document_response(cls, view) ==
    LET attrs == IF Truthy(view) THEN SerializationView(cls, view)
                 ELSE Return(FieldNames(cls))
    IN IF attrs.kind = "raise" THEN attrs
       ELSE LET items == DescribeAttrs(cls, attrs.value, view, Len(attrs.value)) IN
            IF items.kind = "raise" THEN items ELSE Return(JDict(items.value))

(***************************************************************************)
(* Instance serialization                                                  *)
(***************************************************************************)

\* helpers.serialize(value, view): a datetime becomes its ISO text, a JSON
\* primitive is kept, and anything else is left as the application of
\* serialize to it.
serialize(value, view) ==
    CASE value.t = "datetime" -> JStr(value.iso)
      [] value.t \in {"int", "str", "bool", "float", "none"} -> value
      [] OTHER -> [t |-> "serialized", arg |-> value, view |-> view]

\* getattr(self, key) on a model instance: a field reads self._data (None
\* when unset), a function is bound, any other class attribute is itself.
getattr_instance(self, key) ==
    LET d == ClassDict(self.cls) IN
    IF ~HasKey(d, key) THEN Raise("AttributeError", <<key>>)
    ELSE IF Lookup(d, key).kind = "field"
    THEN Return(IF HasKey(self.data, key) THEN Lookup(self.data, key) ELSE None)
    ELSE IF Lookup(d, key).kind = "function"
    THEN Return(BoundMethod(self.cls, key))
    ELSE Return([t |-> "attribute", cls |-> self.cls, name |-> key])

RECURSIVE SerializeAttrs(_, _, _, _)

\* The dict comprehension of to_jsondict over keys[1..n].
SerializeAttrs(self, keys, view, n) ==
    IF n = 0 THEN Return(<<>>)
    ELSE LET before == SerializeAttrs(self, keys, view, n - 1) IN
         IF before.kind = "raise" THEN before
         ELSE LET value == getattr_instance(self, keys[n]) IN
              IF value.kind = "raise" THEN value
              ELSE Return(DictSet(before.value, keys[n], serialize(value.value, view)))

\* A to_jsondict that serializes the raw values when no view is given.
to_jsondict_serializes_all(self, view) ==
    IF HasSerialization(self.cls) /\ Truthy(view)
    THEN LET keys == SerializationView(self.cls, view) IN
         IF keys.kind = "raise" THEN keys
         ELSE LET items == SerializeAttrs(self, keys.value, view, Len(keys.value)) IN
              IF items.kind = "raise" THEN items ELSE Return(JDict(items.value))
    ELSE Return(JDict([i \in 1..Len(self.data) |->
                         Item(self.data[i].k, serialize(self.data[i].v, view))]))

\* A to_jsondict that filters _data by the view and serializes nothing.
to_jsondict_raw_view(self, view) ==
    IF HasSerialization(self.cls) /\ Truthy(view)
    THEN LET keys == SerializationView(self.cls, view) IN
         IF keys.kind = "raise" THEN keys
         ELSE Return(JDict(SelectSeq(self.data,
                                     LAMBDA it : \E i \in 1..Len(keys.value) :
                                                     keys.value[i] = it.k)))
    ELSE Return(JDict(self.data))

\* EastModel.to_jsondict(view)
to_jsondict(self, view) ==
    IF HasSerialization(self.cls) /\ Truthy(view)
    THEN LET keys == SerializationView(self.cls, view) IN
         IF keys.kind = "raise" THEN keys
         ELSE LET items == SerializeAttrs(self, keys.value, view, Len(keys.value)) IN
              IF items.kind = "raise" THEN items ELSE Return(JDict(items.value))
    ELSE Return(JDict(self.data))

(***************************************************************************)
(* Inputs                                                                  *)
(***************************************************************************)

RECURSIVE Pad(_, _)
\* n copies of the character c.
Pad(c, n) == IF n = 0 THEN <<>> ELSE <<c>> \o Pad(c, n - 1)

\* Messages of database drivers, and fragments of the token.
DriverMessages ==
    { <<"U","N","I","Q","U","E"," ","c","o","n","s","t","r","a","i","n","t"," ","f","a","i","l","e","d",":"," ","u","s","e","r",".","n","a","m","e">>,
      <<"N","O","T"," ","N","U","L","L"," ","c","o","n","s","t","r","a","i","n","t"," ","f","a","i","l","e","d",":"," ","u","s","e","r",".","n","a","m","e">>,
      <<"F","O","R","E","I","G","N"," ","K","E","Y"," ","c","o","n","s","t","r","a","i","n","t"," ","f","a","i","l","e","d">>,
      <<"d","u","p","l","i","c","a","t","e"," ","k","e","y"," ","v","a","l","u","e"," ","v","i","o","l","a","t","e","s"," ","u","n","i","q","u","e"," ","c","o","n","s","t","r","a","i","n","t">>,
      <<"c","o","n","n","e","c","t","i","o","n"," ","r","e","f","u","s","e","d">>,
      <<"N","I","Q","U","E">>,
      <<"U","N","I","Q","U">>,
      <<"U","N","I","Q"," ","U","E">>,
      <<>> }

\* The messages the wrapped operation fails with: a driver message between
\* up to MaxPad "U" before it and up to MaxPad "E" after it.
Messages ==
    { Pad("U", n) \o m \o Pad("E", k) : n \in 0..MaxPad, k \in 0..MaxPad, m \in DriverMessages }

\* The _data dicts of the instances.
InstanceData(cls) ==
    CASE cls = "User" ->
            { << Item("id", JInt(1)), Item("name", JStr("ann")),
                 Item("joined", DateTime("2016-03-01T10:00:00")),
                 Item("token", JStr("ab12")) >>,
              << Item("name", JStr("bob")), Item("joined", None) >>,
              << >> }
      [] cls = "Post" ->
            { << Item("id", JInt(7)), Item("title", JStr("hello")),
                 Item("author", JInt(1)),
                 Item("created", DateTime("2016-03-02T08:30:00")) >>,
              << Item("created", DateTime("2016-03-02T08:30:00")),
                 Item("title", JStr("draft")) >> }
      [] cls = "Comment" ->
            { << Item("id", JInt(3)), Item("body", JStr("nice")),
                 Item("flagged", [t |-> "bool", v |-> TRUE]) >> }
      [] cls = "Plain" ->
            { << Item("id", JInt(2)), Item("value", [t |-> "float", v |-> "0.5"]) >>,
              << Item("value", DateTime("2016-03-03T00:00:00")) >> }

Instances == UNION { { Instance(c, d) : d \in InstanceData(c) } : c \in ModelClasses }

\* What the wrapped operation does: it fails with a native exception, or
\* it returns a value.
Failures == { Raise(c, m) : c \in NativeClasses, m \in Messages }

CreateOutcomes(cls) ==
    { Return(Instance(cls, d)) : d \in InstanceData(cls) } \cup Failures

CallOutcomes ==
    { Return(v) : v \in {None, JInt(1)} \cup Instances } \cup Failures

(***************************************************************************)
(* State machine: the last call and its result                             *)
(***************************************************************************)

NoOutcome == [kind |-> "none"]

\* The operations are synchronous: one is called when no other is running.
Idle == call.op = "init"

Call(op, cls, view, inst, attr, delegated) ==
    [op |-> op, cls |-> cls, view |-> view, inst |-> inst, attr |-> attr,
     delegated |-> delegated]

Init ==
    /\ call = Call("init", "", "", None, "", NoOutcome)
    /\ result = NoOutcome

\* Model.create(**attributes) through EastModel.create
Create ==
    /\ Idle
    /\ \E cls \in ModelClasses : \E outcome \in CreateOutcomes(cls) :
        /\ call' = Call("create", cls, "", None, "", outcome)
        /\ result' = create(cls, outcome)

\* EastModel.replace_exceptions(call, *args, **kwargs)
ReplaceExceptions ==
    /\ Idle
    /\ \E cls \in ModelClasses : \E outcome \in CallOutcomes :
        /\ call' = Call("replace_exceptions", cls, "", None, "", outcome)
        /\ result' = replace_exceptions(cls, outcome)

\* instance.to_jsondict(view)
ToJsondict ==
    /\ Idle
    /\ \E self \in Instances : \E view \in ViewArgs :
        /\ call' = Call("to_jsondict", self.cls, view, self, "", NoOutcome)
        /\ result' = to_jsondict(self, view)

\* cls.document_response(view)
DocumentResponse ==
    /\ Idle
    /\ \E cls \in ModelClasses : \E view \in ViewArgs :
        /\ call' = Call("document_response", cls, view, None, "", NoOutcome)
        /\ result' = document_response(cls, view)

\* cls.to_attr_jsontype(getattr(cls, k), view)
ToAttrJsontype ==
    /\ Idle
    /\ \E cls \in ModelClasses : \E view \in ViewArgs \cup {NoneView} :
        \E i \in 1..Len(ClassDict(cls)) :
            /\ call' = Call("to_attr_jsontype", cls, view, None, ClassDict(cls)[i].k, NoOutcome)
            /\ result' = to_attr_jsontype(cls, ClassDict(cls)[i].v, view)

\* The caller has taken the result (the value, or the exception raised).
Finish ==
    /\ ~Idle
    /\ call' = Call("init", "", "", None, "", NoOutcome)
    /\ result' = NoOutcome

Next ==
    \/ Finish
    \/ Create
    \/ ReplaceExceptions
    \/ ToJsondict
    \/ DocumentResponse
    \/ ToAttrJsontype

Spec == Init /\ [][Next]_vars

(***************************************************************************)
(* Properties                                                              *)
(***************************************************************************)

\* tok occurs in s, character by character.
Occurs(tok, s) ==
    \E i \in 1..Len(s) :
        /\ i + Len(tok) - 1 <= Len(s)
        /\ \A j \in 1..Len(tok) : s[i + j - 1] = tok[j]

\* The wrapped operation of the last call failed with exception class klass
\* or a subclass of it.
DelegateRaised(klass) ==
    /\ call.delegated.kind = "raise"
    /\ klass \in Mro(call.delegated.exc.cls)

\* C1: when the create that EastModel.create delegates to fails with an
\* IntegrityError whose message holds the token UNIQUE, the caller gets a
\* ValueNotUniqueError whose message carries the class name and the
\* underlying message, and never the native error.
C1_UniqueConflict ==
    (/\ call.op = "create"
     /\ DelegateRaised("IntegrityError")
     /\ Occurs(UNIQUE, call.delegated.exc.msg))
    => /\ result.kind = "raise"
       /\ result.exc.cls = "ValueNotUniqueError"
       /\ result.exc.cls \notin NativeClasses
       /\ Occurs(ClassName(call.cls), result.exc.msg)
       /\ Occurs(call.delegated.exc.msg, result.exc.msg)

\* A uniqueness message whose token is not at the start was translated.
C1_Witness ==
    /\ call.op = "create"
    /\ DelegateRaised("IntegrityError")
    /\ Occurs(UNIQUE, call.delegated.exc.msg)
    /\ SubSeq(call.delegated.exc.msg, 1, Len(UNIQUE)) # UNIQUE
    /\ result.kind = "raise"
    /\ result.exc.cls = "ValueNotUniqueError"

\* C2: when the delegated create fails with an IntegrityError whose message
\* does not hold the token UNIQUE, EastModel.create fails with
\* IntegrityViolationError and with no other kind of error.
C2_OtherIntegrityViolation ==
    (/\ call.op = "create"
     /\ DelegateRaised("IntegrityError")
     /\ ~Occurs(UNIQUE, call.delegated.exc.msg))
    => /\ result.kind = "raise"
       /\ result.exc.cls = "IntegrityViolationError"
       /\ Occurs(call.delegated.exc.msg, result.exc.msg)

\* A not-null violation was translated to IntegrityViolationError.
C2_Witness ==
    /\ call.op = "create"
    /\ DelegateRaised("IntegrityError")
    /\ Occurs(<<"N","O","T"," ","N","U","L","L">>, call.delegated.exc.msg)
    /\ ~Occurs(UNIQUE, call.delegated.exc.msg)
    /\ result.kind = "raise"
    /\ result.exc.cls = "IntegrityViolationError"

\* C3: when the delegated create fails with an OperationalError, the caller
\* of EastModel.create gets DatabaseError: not the native error and not one
\* of the two integrity kinds, whatever the message says.
C3_OperationalFailure ==
    (/\ call.op = "create"
     /\ DelegateRaised("OperationalError"))
    => /\ result.kind = "raise"
       /\ result.exc.cls = "DatabaseError"
       /\ result.exc.cls \notin NativeClasses
       /\ Occurs(call.delegated.exc.msg, result.exc.msg)

\* An operational error whose message holds the token UNIQUE became a
\* DatabaseError.
C3_Witness ==
    /\ call.op = "create"
    /\ DelegateRaised("OperationalError")
    /\ Occurs(UNIQUE, call.delegated.exc.msg)
    /\ result.kind = "raise"
    /\ result.exc.cls = "DatabaseError"

\* C4: in create and in replace_exceptions, every failure of the wrapped
\* operation ends in a raised error, and a failure that is neither an
\* IntegrityError nor an OperationalError reaches the caller as the very
\* exception that was raised.
C4_OthersPropagateUnchanged ==
    (/\ call.op \in {"create", "replace_exceptions"}
     /\ call.delegated.kind = "raise")
    => /\ result.kind = "raise"
       /\ (~DelegateRaised("IntegrityError") /\ ~DelegateRaised("OperationalError"))
            => result = call.delegated

\* Peewee's DatabaseError, the base class of the two caught classes, went
\* through replace_exceptions untouched.
C4_Witness ==
    /\ call.op = "replace_exceptions"
    /\ call.delegated.kind = "raise"
    /\ call.delegated.exc.cls = "peewee.DatabaseError"
    /\ result = call.delegated

\* C10: when the wrapped operation of create or replace_exceptions succeeds,
\* what it returned is dropped and the call returns None.
C10_SuccessReturnsNothing ==
    (/\ call.op \in {"create", "replace_exceptions"}
     /\ call.delegated.kind = "return")
    => result = Return(None)

\* The delegated create returned a populated instance and create returned
\* None.
C10_Witness ==
    /\ call.op = "create"
    /\ call.delegated.kind = "return"
    /\ call.delegated.value.t = "instance"
    /\ Len(call.delegated.value.data) > 0
    /\ result = Return(None)

\* The names of a declared view are all attributes of the class (the data
\* model's invariant on views).
ViewWellFormed(cls, view) ==
    /\ HasSerialization(cls)
    /\ view \in DOMAIN Serialization(cls)
    /\ \A i \in 1..Len(Serialization(cls)[view]) :
           HasKey(ClassDict(cls), Serialization(cls)[view][i])

\* C5: to_jsondict with a non-empty view the class declares returns a dict
\* whose keys are the view's attribute names in the declared order, each
\* with serialize applied to the instance's attribute of that name, and
\* nothing else.
C5_ViewKeysInOrder ==
    (/\ call.op = "to_jsondict"
     /\ call.view # ""
     /\ ViewWellFormed(call.cls, call.view))
    => LET names == Serialization(call.cls)[call.view] IN
       /\ result.kind = "return"
       /\ result.value.t = "dict"
       /\ Len(result.value.items) = Len(names)
       /\ \A i \in 1..Len(names) :
            /\ result.value.items[i].k = names[i]
            /\ result.value.items[i].v =
                 serialize(getattr_instance(call.inst, names[i]).value, call.view)

\* The view 'full' was applied to a User holding a datetime: the keys are
\* the view's names, which are not the keys of _data, and the datetime came
\* out as text.
C5_Witness ==
    /\ call.op = "to_jsondict"
    /\ call.cls = "User"
    /\ call.view = "full"
    /\ HasKey(call.inst.data, "joined")
    /\ Lookup(call.inst.data, "joined").t = "datetime"
    /\ result.kind = "return"
    /\ Keys(result.value.items) = <<"id", "name", "joined", "posts", "age", "tags">>
    /\ Keys(result.value.items) # Keys(call.inst.data)
    /\ Lookup(result.value.items, "joined").t = "str"

\* C6: to_jsondict with the empty view returns the instance's _data as it
\* is, nothing filtered and no value serialized, whether or not the class
\* declares views.
C6_NoViewReturnsRawData ==
    (/\ call.op = "to_jsondict"
     /\ call.view = "")
    => result = Return(JDict(call.inst.data))

\* An instance of a class that declares views, holding a datetime, was
\* returned raw.
C6_Witness ==
    /\ call.op = "to_jsondict"
    /\ call.view = ""
    /\ HasSerialization(call.cls)
    /\ \E i \in 1..Len(call.inst.data) : call.inst.data[i].v.t = "datetime"
    /\ result.kind = "return"
    /\ result.value.items = call.inst.data

\* The annotation of attribute k of cls is (type, view) with type a model
\* class.
PairsModel(cls, k) ==
    LET attr == Lookup(ClassDict(cls), k) IN
    /\ attr.kind = "function"
    /\ attr.ann.shape = "tuple"
    /\ attr.ann.first.shape = "type"
    /\ IsModel(attr.ann.first.type)

\* C7: for a method annotated (type, view-name) with type a model class,
\* to_attr_jsontype gives the model's document_response(view-name), whatever
\* view the enclosing call was given; so does the entry document_response
\* builds for the method.
C7_PairedViewOverrides ==
    /\ (call.op = "to_attr_jsontype" /\ PairsModel(call.cls, call.attr))
       => LET ann == Lookup(ClassDict(call.cls), call.attr).ann IN
          result = document_response(ann.first.type, ann.view)
    /\ (call.op = "document_response" /\ result.kind = "return")
       => \A i \in 1..Len(result.value.items) :
            LET k == result.value.items[i].k IN
            PairsModel(call.cls, k)
            => LET ann == Lookup(ClassDict(call.cls), k).ann IN
               Return(result.value.items[i].v) = document_response(ann.first.type, ann.view)

\* User.latest, annotated (Post, 'brief'), was described under the view
\* 'full' and got Post's 'brief' schema.
C7_Witness ==
    /\ call.op = "to_attr_jsontype"
    /\ call.cls = "User"
    /\ call.attr = "latest"
    /\ call.view = "full"
    /\ result.kind = "return"
    /\ result.value.t = "dict"
    /\ Keys(result.value.items) = Serialization("Post")["brief"]

\* C8: document_response with a non-empty view the class does not declare,
\* or with a declared view naming an attribute the class does not define,
\* fails with a key or attribute lookup error and returns no mapping.
C8_UndeclaredViewFails ==
    (/\ call.op = "document_response"
     /\ call.view # ""
     /\ ~ViewWellFormed(call.cls, call.view))
    => /\ result.kind = "raise"
       /\ result.exc.cls \in {"KeyError", "AttributeError"}

\* A declared view whose second name the class does not define failed after
\* its first name had been described.
C8_Witness ==
    /\ call.op = "document_response"
    /\ call.cls = "User"
    /\ call.view = "broken"
    /\ result.kind = "raise"
    /\ result.exc = [cls |-> "AttributeError", msg |-> <<"nosuch">>]

\* What a type alone resolves to under a view.
Resolved(type, view) ==
    IF IsModel(type) THEN document_response(type, view) ELSE Return(to_jsontype(type))

\* A successful outcome with its value in a one-element list; a failure as
\* it is.
Wrapped(outcome) ==
    IF outcome.kind = "return" THEN Return(JList(<<outcome.value>>)) ELSE outcome

\* C9: for a method annotated [type] or ([type], view-name), to_attr_jsontype
\* gives a one-element list holding what the type alone resolves to; for
\* type or (type, view-name) it gives that descriptor itself, not in a list.
C9_ListWrapsInner ==
    (/\ call.op = "to_attr_jsontype"
     /\ Lookup(ClassDict(call.cls), call.attr).kind = "function"
     /\ Lookup(ClassDict(call.cls), call.attr).ann.shape # "none")
    => LET ann == Lookup(ClassDict(call.cls), call.attr).ann
           inner == IF ann.shape = "tuple" THEN ann.first ELSE ann
           view == IF ann.shape = "tuple" THEN ann.view ELSE call.view
       IN IF inner.shape = "list"
          THEN result = Wrapped(Resolved(inner.type, view))
          ELSE result = Resolved(inner.type, view)

\* User.posts, annotated ([Post], 'brief'), was described as a one-element
\* list holding Post's 'brief' schema.
C9_Witness ==
    /\ call.op = "to_attr_jsontype"
    /\ call.cls = "User"
    /\ call.attr = "posts"
    /\ result.kind = "return"
    /\ result.value.t = "list"
    /\ Len(result.value.items) = 1
    /\ Return(result.value.items[1]) = document_response("Post", "brief")

====
